---- MODULE Spec2Model ----
(***************************************************************************)
(* A model of mev.py (madprops/mev): the text-to-frames layout engine of   *)
(* TextToVideoGenerator.  A text is a sequence of characters; a character  *)
(* is a one-codepoint string ("a", " ", "\n") or the name of a codepoint   *)
(* that has no ASCII spelling ("U+1F44B").                                 *)
(***************************************************************************)
EXTENDS Integers, Sequences, FiniteSets, TLC

VARIABLES
    pc,                  \* position of the modelled call
    font_size,           \* self.font_size
    width,               \* self.width
    height,              \* self.height
    convert_emojis,      \* self.convert_emojis
    chars_per_line,      \* self.chars_per_line (0: attribute not set)
    lines_per_frame,     \* self.lines_per_frame (0: attribute not set)
    error,               \* exception raised by the call, "none" if none
    entry,               \* which public method was called
    file_text,           \* what read_text_file returned to generate_video
    input_text,          \* the argument `text` of the called method
    text,                \* local `text` / `text_content`
    width_arg,           \* parameter `width` of wrap_text_with_emoji_support
    paragraphs,          \* local `paragraphs` of split_text_into_frames
    p_idx,               \* index of the paragraph the outer loop is at
    wrapped_lines,       \* local `wrapped_lines`
    l_idx,               \* index of the line the inner loop is at
    frames,              \* local `frames`
    current_frame_lines, \* local `current_frame_lines`
    current_line_count,  \* local `current_line_count`
    result               \* value returned by split_text_into_frames

vars == <<pc, font_size, width, height, convert_emojis, chars_per_line,
          lines_per_frame, error, entry, file_text, input_text, text, width_arg, paragraphs,
          p_idx, wrapped_lines, l_idx, frames, current_frame_lines,
          current_line_count, result>>

(***************************************************************************)
(* Bounds of the model.                                                    *)
(***************************************************************************)
MaxTextLen == 4
MaxWords == 3
MaxWrapWidth == 4
MaxEmojiLen == 3
MaxDim == 6
MaxFontSize == 4

(***************************************************************************)
(* Program constants: the defaults of __init__.                            *)
(***************************************************************************)
DefaultFontSize == 32
DefaultWidth == 1920
DefaultHeight == 1080

(***************************************************************************)
(* Characters and their Unicode properties.                                *)
(***************************************************************************)
SP == " "
NL == "\n"
ZWJ == "U+200D"
VS16 == "U+FE0F"
WAVE == "U+1F44B"
ROCKET == "U+1F680"
COMPUTER == "U+1F4BB"
MAN == "U+1F468"
WOMAN == "U+1F469"
WHITE_FLAG == "U+1F3F3"
RAINBOW == "U+1F308"
CJK == "U+4E2D"

Letters ==
    {"a", "b", "c", "d", "e", "f", "g", "h", "i", "j", "k", "l", "m",
     "n", "o", "p", "q", "r", "s", "t", "u", "v", "w", "x", "y", "z"}

\* str.isspace()
IsSpace(c) == c \in {SP, NL}

\* str.isalnum(): letters and ideographs are, symbols and marks are not
IsAlnum(c) == c \in Letters \cup {CJK}

\* the literal list of generate_video's filter
AllowedPunctuation == {"?", "!", "'", ".", ","}

\* unicodedata.category(c) == 'So'
SymbolOther ==
    {WAVE, "U+1F600", "U+1F603", "U+1F604", "U+1F60A", ROCKET, "U+1F31F",
     COMPUTER, "U+1F389", "U+1F3A8", "U+1F3AD", "U+1F3AA", "U+1F3AF",
     "U+1F3B2", "U+1F3B8", "U+1F3BA", "U+1F3BB", "U+1F525", "U+1F4A1",
     "U+1F4F1", "U+1F4E7", "U+1F4C5", "U+1F4C8", "U+1F3C6", "U+1F4A7",
     "U+2600", "U+1F319", "U+2B50", "U+2764", "U+1F49B", "U+1F49A",
     "U+1F499", "U+1F49C", "U+1F333", "U+1F332", "U+1F34E", "U+1F96A",
     "U+2728", "U+1F5BC", MAN, WOMAN, WHITE_FLAG, RAINBOW}

\* unicodedata.east_asian_width(c) in ('F', 'W')
WideChars == {CJK}

(***************************************************************************)
(* Sequence helpers: the str methods the program calls.                    *)
(***************************************************************************)
\* the concatenation of a sequence of sequences
RECURSIVE Flatten(_)
Flatten(ss) == IF ss = <<>> THEN <<>> ELSE Head(ss) \o Flatten(Tail(ss))

RECURSIVE LStrip(_)
LStrip(s) == IF s # <<>> /\ IsSpace(Head(s)) THEN LStrip(Tail(s)) ELSE s

RECURSIVE RStrip(_)
RStrip(s) ==
    IF s # <<>> /\ IsSpace(s[Len(s)]) THEN RStrip(SubSeq(s, 1, Len(s) - 1)) ELSE s

\* str.strip()
Strip(s) == RStrip(LStrip(s))

\* str.split(): the maximal runs of non-whitespace, `cur` the run being read
RECURSIVE SplitWordsFrom(_, _)
SplitWordsFrom(s, cur) ==
    IF s = <<>> THEN (IF cur = <<>> THEN <<>> ELSE <<cur>>)
    ELSE IF IsSpace(Head(s))
         THEN (IF cur = <<>> THEN <<>> ELSE <<cur>>) \o SplitWordsFrom(Tail(s), <<>>)
         ELSE SplitWordsFrom(Tail(s), Append(cur, Head(s)))

SplitWords(s) == SplitWordsFrom(s, <<>>)

\* whether `key` occurs in s at position i
StartsWithAt(s, i, key) ==
    /\ i + Len(key) - 1 <= Len(s)
    /\ \A k \in 1..Len(key) : s[i + k - 1] = key[k]

\* str.split(sep) for a non-empty sep: left to right, non-overlapping
RECURSIVE SplitOnFrom(_, _, _, _)
SplitOnFrom(s, sep, i, cur) ==
    IF i > Len(s) THEN <<cur>>
    ELSE IF StartsWithAt(s, i, sep)
         THEN <<cur>> \o SplitOnFrom(s, sep, i + Len(sep), <<>>)
         ELSE SplitOnFrom(s, sep, i + 1, Append(cur, s[i]))

SplitOn(s, sep) == SplitOnFrom(s, sep, 1, <<>>)

\* sep.join(parts)
RECURSIVE Join(_, _)
Join(parts, sep) ==
    IF parts = <<>> THEN <<>>
    ELSE IF Len(parts) = 1 THEN parts[1]
    ELSE parts[1] \o sep \o Join(Tail(parts), sep)

\* str.replace(key, repl) where key occurs: left to right, non-overlapping
RECURSIVE ReplaceFrom(_, _, _, _)
ReplaceFrom(s, key, repl, i) ==
    IF i > Len(s) THEN <<>>
    ELSE IF StartsWithAt(s, i, key)
         THEN repl \o ReplaceFrom(s, key, repl, i + Len(key))
         ELSE <<s[i]>> \o ReplaceFrom(s, key, repl, i + 1)

\* str.replace(key, repl): the text itself where key does not occur
Replace(s, key, repl) ==
    IF \E i \in 1..Len(s) : StartsWithAt(s, i, key)
    THEN ReplaceFrom(s, key, repl, 1)
    ELSE s

\* x // y of Python: rounds toward minus infinity, y # 0
FloorDiv(x, y) == IF y > 0 THEN x \div y ELSE (0 - x) \div (0 - y)

\* int(x * 0.8) of Python: truncates toward zero
IntOfFourFifths(x) == IF x >= 0 THEN (4 * x) \div 5 ELSE 0 - ((4 * (0 - x)) \div 5)

Max(a, b) == IF a >= b THEN a ELSE b

(***************************************************************************)
(* convert_emojis_to_text: the map in the order the dict literal lists it, *)
(* each entry <<key, replacement>>, applied one str.replace after another. *)
(***************************************************************************)
emoji_map == <<
    <<<<WAVE>>, <<"[", "w", "a", "v", "e", "]">>>>,
    <<<<"U+1F600">>, <<"[", "s", "m", "i", "l", "e", "]">>>>,
    <<<<"U+1F603">>, <<"[", "g", "r", "i", "n", "]">>>>,
    <<<<"U+1F604">>, <<"[", "h", "a", "p", "p", "y", "]">>>>,
    <<<<"U+1F60A">>, <<"[", "s", "m", "i", "l", "e", "]">>>>,
    <<<<ROCKET>>, <<"[", "r", "o", "c", "k", "e", "t", "]">>>>,
    <<<<"U+1F31F">>, <<"[", "s", "t", "a", "r", "]">>>>,
    <<<<COMPUTER>>, <<"[", "c", "o", "m", "p", "u", "t", "e", "r", "]">>>>,
    <<<<"U+1F389">>, <<"[", "p", "a", "r", "t", "y", "]">>>>,
    <<<<"U+1F3A8">>, <<"[", "a", "r", "t", "]">>>>,
    <<<<"U+1F3AD">>, <<"[", "t", "h", "e", "a", "t", "e", "r", "]">>>>,
    <<<<"U+1F3AA">>, <<"[", "c", "i", "r", "c", "u", "s", "]">>>>,
    <<<<"U+1F3AF">>, <<"[", "t", "a", "r", "g", "e", "t", "]">>>>,
    <<<<"U+1F3B2">>, <<"[", "d", "i", "c", "e", "]">>>>,
    <<<<"U+1F3B8">>, <<"[", "g", "u", "i", "t", "a", "r", "]">>>>,
    <<<<"U+1F3BA">>, <<"[", "t", "r", "u", "m", "p", "e", "t", "]">>>>,
    <<<<"U+1F3BB">>, <<"[", "v", "i", "o", "l", "i", "n", "]">>>>,
    <<<<"U+1F525">>, <<"[", "f", "i", "r", "e", "]">>>>,
    <<<<"U+1F4A1">>, <<"[", "l", "i", "g", "h", "t", "b", "u", "l", "b", "]">>>>,
    <<<<"U+1F4F1">>, <<"[", "p", "h", "o", "n", "e", "]">>>>,
    <<<<"U+1F4E7">>, <<"[", "e", "m", "a", "i", "l", "]">>>>,
    <<<<"U+1F4C5">>, <<"[", "c", "a", "l", "e", "n", "d", "a", "r", "]">>>>,
    <<<<"U+1F4C8">>, <<"[", "c", "h", "a", "r", "t", "]">>>>,
    <<<<"U+1F3C6">>, <<"[", "t", "r", "o", "p", "h", "y", "]">>>>,
    <<<<"U+1F4A7">>, <<"[", "w", "a", "t", "e", "r", "]">>>>,
    <<<<"U+2600", VS16>>, <<"[", "s", "u", "n", "]">>>>,
    <<<<"U+1F319">>, <<"[", "m", "o", "o", "n", "]">>>>,
    <<<<"U+2B50">>, <<"[", "s", "t", "a", "r", "]">>>>,
    <<<<"U+2764", VS16>>, <<"[", "h", "e", "a", "r", "t", "]">>>>,
    <<<<"U+1F49B">>, <<"[", "y", "e", "l", "l", "o", "w", SP, "h", "e", "a", "r", "t", "]">>>>,
    <<<<"U+1F49A">>, <<"[", "g", "r", "e", "e", "n", SP, "h", "e", "a", "r", "t", "]">>>>,
    <<<<"U+1F499">>, <<"[", "b", "l", "u", "e", SP, "h", "e", "a", "r", "t", "]">>>>,
    <<<<"U+1F49C">>, <<"[", "p", "u", "r", "p", "l", "e", SP, "h", "e", "a", "r", "t", "]">>>>,
    <<<<"U+1F333">>, <<"[", "t", "r", "e", "e", "]">>>>,
    <<<<"U+1F332">>, <<"[", "e", "v", "e", "r", "g", "r", "e", "e", "n", "]">>>>,
    <<<<"U+1F34E">>, <<"[", "a", "p", "p", "l", "e", "]">>>>,
    <<<<"U+1F96A">>, <<"[", "s", "a", "n", "d", "w", "i", "c", "h", "]">>>>,
    <<<<"U+2728">>, <<"[", "s", "p", "a", "r", "k", "l", "e", "s", "]">>>>,
    <<<<"U+1F5BC", VS16>>, <<"[", "p", "i", "c", "t", "u", "r", "e", "]">>>>,
    <<<<MAN, ZWJ, COMPUTER>>, <<"[", "m", "a", "n", SP, "t", "e", "c", "h", "n", "o", "l", "o", "g", "i", "s", "t", "]">>>>,
    <<<<WOMAN, ZWJ, ROCKET>>, <<"[", "w", "o", "m", "a", "n", SP, "a", "s", "t", "r", "o", "n", "a", "u", "t", "]">>>>,
    <<<<WHITE_FLAG, VS16, ZWJ, RAINBOW>>, <<"[", "r", "a", "i", "n", "b", "o", "w", SP, "f", "l", "a", "g", "]">>>>
>>

\* the iterations lo..hi of
\* `for emoji, replacement in emoji_map.items(): text = text.replace(...)`
\* on text t, the first half of the entries and then the second
RECURSIVE ReplaceRange(_, _, _, _)
ReplaceRange(t, map, lo, hi) ==
    IF t = <<>> \/ lo > hi THEN t
    ELSE IF lo = hi THEN Replace(t, map[lo][1], map[lo][2])
    ELSE ReplaceRange(ReplaceRange(t, map, lo, (lo + hi) \div 2),
                      map, (lo + hi) \div 2 + 1, hi)

convert_emojis_to_text(t) == ReplaceRange(t, emoji_map, 1, Len(emoji_map))

(***************************************************************************)
(* wrap_text_with_emoji_support                                            *)
(***************************************************************************)
\* the width one character adds to word_width
CharWidth(c) ==
    IF c \in SymbolOther THEN 2
    ELSE IF c \in WideChars THEN 2
    ELSE 1

\* word_width after the loop `for char in word`
RECURSIVE WordWidth(_)
WordWidth(word) ==
    IF word = <<>> THEN 0 ELSE CharWidth(Head(word)) + WordWidth(Tail(word))

\* WrapStep without the joining space in the accounting
WrapStepNoSpace(st, word, w) ==
    LET word_width == WordWidth(word)
    IN  IF st.current_width + word_width > w /\ st.current_line # <<>>
        THEN [lines |-> Append(st.lines, Join(st.current_line, <<SP>>)),
              current_line |-> <<word>>,
              current_width |-> word_width]
        ELSE [lines |-> st.lines,
              current_line |-> Append(st.current_line, word),
              current_width |-> st.current_width + word_width]

\* WrapStep resetting current_width to 0 when it starts a line
WrapStepResetsWidth(st, word, w) ==
    LET word_width == WordWidth(word)
        space_width == IF st.current_line # <<>> THEN 1 ELSE 0
    IN  IF st.current_width + word_width + space_width > w /\ st.current_line # <<>>
        THEN [lines |-> Append(st.lines, Join(st.current_line, <<SP>>)),
              current_line |-> <<word>>,
              current_width |-> 0]
        ELSE [lines |-> st.lines,
              current_line |-> Append(st.current_line, word),
              current_width |-> st.current_width + word_width + space_width]

\* one iteration of `for word in words` on the locals
\* st = [lines, current_line, current_width]
WrapStep(st, word, w) ==
    LET word_width == WordWidth(word)
        space_width == IF st.current_line # <<>> THEN 1 ELSE 0
    IN  IF st.current_width + word_width + space_width > w /\ st.current_line # <<>>
        THEN [lines |-> Append(st.lines, Join(st.current_line, <<SP>>)),
              current_line |-> <<word>>,
              current_width |-> word_width]
        ELSE [lines |-> st.lines,
              current_line |-> Append(st.current_line, word),
              current_width |-> st.current_width + word_width + space_width]

RECURSIVE WrapLoop(_, _, _)
WrapLoop(words, w, st) ==
    IF words = <<>> THEN st ELSE WrapLoop(Tail(words), w, WrapStep(st, Head(words), w))

\* the lines returned for paragraph text t and width budget w
wrap_text_with_emoji_support(t, w) ==
    LET st == WrapLoop(SplitWords(t), w,
                       [lines |-> <<>>, current_line |-> <<>>, current_width |-> 0])
    IN  IF st.current_line # <<>>
        THEN Append(st.lines, Join(st.current_line, <<SP>>))
        ELSE st.lines

(***************************************************************************)
(* __init__: the derived layout fields                                     *)
(***************************************************************************)
\* self.text_width = int(self.width * 0.8)
TextWidth(w) == IntOfFourFifths(w)

\* self.text_height = int(self.height * 0.8)
TextHeight(h) == IntOfFourFifths(h)

\* self.font_size // 1.5, the floor of 2 * font_size / 3
CharPixels(fs) == FloorDiv(2 * fs, 3)

\* whether computing chars_per_line raises ZeroDivisionError
CharsPerLineRaises(fs) == CharPixels(fs) = 0

\* whether computing lines_per_frame raises ZeroDivisionError
LinesPerFrameRaises(fs) == fs + 10 = 0

DeriveCharsPerLine(w, fs) == Max(1, FloorDiv(TextWidth(w), CharPixels(fs)))

DeriveLinesPerFrame(h, fs) == Max(1, FloorDiv(TextHeight(h), fs + 10))

(***************************************************************************)
(* generate_video: the allow-list filter                                   *)
(***************************************************************************)
\* the generator expression of line 381, character by character
AllowListFilter(s) ==
    [i \in 1..Len(s) |->
        IF IsAlnum(s[i]) \/ IsSpace(s[i]) \/ s[i] \in AllowedPunctuation
        THEN s[i] ELSE SP]

(***************************************************************************)
(* split_text_into_frames                                                  *)
(***************************************************************************)
\* [p.strip() for p in parts if p.strip()]
RECURSIVE StripNonEmpty(_)
StripNonEmpty(parts) ==
    IF parts = <<>> THEN <<>>
    ELSE LET p == Strip(Head(parts))
         IN  (IF p # <<>> THEN <<p>> ELSE <<>>) \o StripNonEmpty(Tail(parts))

\* paragraphs = [p.strip() for p in text.split("\n\n") if p.strip()]
SplitParagraphs(t) == StripNonEmpty(SplitOn(t, <<NL, NL>>))

\* an empty list returned for the empty text
EmptyReturnNone == <<>>

\* return [""]
EmptyReturn == << <<>> >>

\* PlaceLine testing the capacity one line late
PlaceLineOffByOne(st, line, lpf) ==
    LET closing == st.current_line_count > lpf /\ st.current_frame_lines # <<>>
        fr == IF closing
              THEN Append(st.frames, Join(st.current_frame_lines, <<NL>>))
              ELSE st.frames
        cfl == IF closing THEN <<>> ELSE st.current_frame_lines
        cnt == IF closing THEN 0 ELSE st.current_line_count
    IN  [frames |-> fr,
         current_frame_lines |-> Append(cfl, line),
         current_line_count |-> cnt + 1]

\* PlaceLine appending the line only when it closes no frame
PlaceLineDropsOnClose(st, line, lpf) ==
    IF st.current_line_count + 1 > lpf /\ st.current_frame_lines # <<>>
    THEN [frames |-> Append(st.frames, Join(st.current_frame_lines, <<NL>>)),
          current_frame_lines |-> <<>>,
          current_line_count |-> 0]
    ELSE [frames |-> st.frames,
          current_frame_lines |-> Append(st.current_frame_lines, line),
          current_line_count |-> st.current_line_count + 1]

\* the body of `for line in wrapped_lines` on the locals
\* st = [frames, current_frame_lines, current_line_count]
PlaceLine(st, line, lpf) ==
    LET closing == st.current_line_count + 1 > lpf /\ st.current_frame_lines # <<>>
        fr == IF closing
              THEN Append(st.frames, Join(st.current_frame_lines, <<NL>>))
              ELSE st.frames
        cfl == IF closing THEN <<>> ELSE st.current_frame_lines
        cnt == IF closing THEN 0 ELSE st.current_line_count
    IN  [frames |-> fr,
         current_frame_lines |-> Append(cfl, line),
         current_line_count |-> cnt + 1]

\* PlaceSpacer finding room in a full frame
PlaceSpacerWhenFull(st, lpf) ==
    IF st.current_line_count <= lpf
    THEN [frames |-> st.frames,
          current_frame_lines |-> Append(st.current_frame_lines, <<>>),
          current_line_count |-> st.current_line_count + 1]
    ELSE st

\* `if current_line_count < self.lines_per_frame:` after a paragraph's lines
PlaceSpacer(st, lpf) ==
    IF st.current_line_count < lpf
    THEN [frames |-> st.frames,
          current_frame_lines |-> Append(st.current_frame_lines, <<>>),
          current_line_count |-> st.current_line_count + 1]
    ELSE st

\* the value returned after the loop
FinalFrames(fr, cfl) ==
    LET all == IF cfl # <<>> THEN Append(fr, Join(cfl, <<NL>>)) ELSE fr
    IN  IF all # <<>> THEN all ELSE << <<>> >>

Locals == [frames |-> frames,
           current_frame_lines |-> current_frame_lines,
           current_line_count |-> current_line_count]

SetLocals(st) ==
    /\ frames' = st.frames
    /\ current_frame_lines' = st.current_frame_lines
    /\ current_line_count' = st.current_line_count

\* lines 194-209 on argument t: strip, the empty case, conversion, paragraphs
SplitPrologue(t) ==
    LET stripped == Strip(t)
        converted == IF convert_emojis THEN convert_emojis_to_text(stripped)
                     ELSE stripped
    IN  /\ input_text' = t
        /\ IF stripped = <<>>
           THEN /\ text' = stripped
                /\ paragraphs' = <<>>
                /\ result' = EmptyReturn
                /\ pc' = "done"
           ELSE /\ text' = converted
                /\ paragraphs' = SplitParagraphs(text')
                /\ result' = <<>>
                /\ pc' = "paragraph"
        /\ p_idx' = 1
        /\ l_idx' = 1
        /\ wrapped_lines' = <<>>
        /\ frames' = <<>>
        /\ current_frame_lines' = <<>>
        /\ current_line_count' = 0
        /\ UNCHANGED <<font_size, width, height, convert_emojis, chars_per_line,
                       lines_per_frame, error, width_arg>>

(***************************************************************************)
(* Inputs.                                                                 *)
(***************************************************************************)
SeqsUpTo(S, n) == UNION {[1..k -> S] : k \in 0..n}

TextAlphabet == {"a", "b", SP, NL, WAVE}
InputTexts == SeqsUpTo(TextAlphabet, MaxTextLen)

\* font size 2 makes a character 1 pixel and a line 12 pixels: these give
\* chars_per_line 1 and 3, lines_per_frame 1 and 2
PipelineFontSizes == {2}
PipelineWidths == {2, 4}
PipelineHeights == {15, 30}

(***************************************************************************)
(* The pipeline: a constructed generator, one call, the pagination loop.   *)
(***************************************************************************)
Init ==
    /\ pc = "idle"
    /\ font_size \in PipelineFontSizes
    /\ width \in PipelineWidths
    /\ height \in PipelineHeights
    /\ convert_emojis \in BOOLEAN
    /\ chars_per_line = DeriveCharsPerLine(width, font_size)
    /\ lines_per_frame = DeriveLinesPerFrame(height, font_size)
    /\ error = "none"
    /\ entry = "none"
    /\ file_text = <<>>
    /\ input_text = <<>>
    /\ text = <<>>
    /\ width_arg = 0
    /\ paragraphs = <<>>
    /\ p_idx = 1
    /\ wrapped_lines = <<>>
    /\ l_idx = 1
    /\ frames = <<>>
    /\ current_frame_lines = <<>>
    /\ current_line_count = 0
    /\ result = <<>>

\* generate_video up to and into its call of split_text_into_frames
GenerateVideo ==
    /\ pc = "idle"
    /\ \E t \in InputTexts :
        /\ file_text' = t
        /\ SplitPrologue(Strip(AllowListFilter(t)))
    /\ entry' = "generate_video"

\* a caller's own call of split_text_into_frames
SplitTextIntoFrames ==
    /\ pc = "idle"
    /\ \E t \in InputTexts : SplitPrologue(t)
    /\ entry' = "split_text_into_frames"
    /\ UNCHANGED file_text

\* `for paragraph in paragraphs`: the next paragraph is wrapped
WrapParagraph ==
    /\ pc = "paragraph"
    /\ p_idx <= Len(paragraphs)
    /\ wrapped_lines' = wrap_text_with_emoji_support(paragraphs[p_idx], chars_per_line)
    /\ l_idx' = 1
    /\ pc' = "line"
    /\ UNCHANGED <<font_size, width, height, convert_emojis, chars_per_line,
                   lines_per_frame, error, entry, file_text, input_text, text,
                   width_arg, paragraphs, p_idx, frames, current_frame_lines,
                   current_line_count, result>>

\* `for line in wrapped_lines`: one line goes into the frame buffer
AppendLine ==
    /\ pc = "line"
    /\ l_idx <= Len(wrapped_lines)
    /\ SetLocals(PlaceLine(Locals, wrapped_lines[l_idx], lines_per_frame))
    /\ l_idx' = l_idx + 1
    /\ UNCHANGED <<pc, font_size, width, height, convert_emojis, chars_per_line,
                   lines_per_frame, error, entry, file_text, input_text, text,
                   width_arg, paragraphs, p_idx, wrapped_lines, result>>

\* the paragraph's lines are exhausted: the spacer, then the next paragraph
EndParagraph ==
    /\ pc = "line"
    /\ l_idx > Len(wrapped_lines)
    /\ SetLocals(PlaceSpacer(Locals, lines_per_frame))
    /\ p_idx' = p_idx + 1
    /\ pc' = "paragraph"
    /\ UNCHANGED <<font_size, width, height, convert_emojis, chars_per_line,
                   lines_per_frame, error, entry, file_text, input_text, text,
                   width_arg, paragraphs, wrapped_lines, l_idx, result>>

\* the paragraphs are exhausted: the last frame and the return
ReturnFrames ==
    /\ pc = "paragraph"
    /\ p_idx > Len(paragraphs)
    /\ result' = FinalFrames(frames, current_frame_lines)
    /\ pc' = "done"
    /\ UNCHANGED <<font_size, width, height, convert_emojis, chars_per_line,
                   lines_per_frame, error, entry, file_text, input_text, text,
                   width_arg, paragraphs, p_idx, wrapped_lines, l_idx, frames,
                   current_frame_lines, current_line_count>>

Next ==
    \/ GenerateVideo
    \/ SplitTextIntoFrames
    \/ WrapParagraph
    \/ AppendLine
    \/ EndParagraph
    \/ ReturnFrames

Spec == Init /\ [][Next]_vars

(***************************************************************************)
(* __init__ on its own: every configuration of a small range, the          *)
(* defaults included.                                                      *)
(***************************************************************************)
Widths == (-1..MaxDim) \cup {DefaultWidth}
Heights == (-1..MaxDim) \cup {15, 30, DefaultHeight}
FontSizes == {-10, -5} \cup (0..MaxFontSize) \cup {DefaultFontSize}

\* the values no call has touched yet
Untouched ==
    /\ entry = "none"
    /\ file_text = <<>>
    /\ input_text = <<>>
    /\ text = <<>>
    /\ width_arg = 0
    /\ paragraphs = <<>>
    /\ p_idx = 1
    /\ wrapped_lines = <<>>
    /\ l_idx = 1
    /\ frames = <<>>
    /\ current_frame_lines = <<>>
    /\ current_line_count = 0
    /\ result = <<>>

InitConfig ==
    /\ pc = "init_call"
    /\ font_size \in FontSizes
    /\ width \in Widths
    /\ height \in Heights
    /\ convert_emojis = TRUE
    /\ chars_per_line = 0
    /\ lines_per_frame = 0
    /\ error = "none"
    /\ Untouched

\* TextToVideoGenerator(font_size, width, height): lines 36-52 in order; a
\* ZeroDivisionError leaves the later attribute unset and no object is returned
Construct ==
    /\ pc = "init_call"
    /\ IF CharsPerLineRaises(font_size)
       THEN /\ error' = "ZeroDivisionError"
            /\ pc' = "raised"
            /\ UNCHANGED <<chars_per_line, lines_per_frame>>
       ELSE IF LinesPerFrameRaises(font_size)
       THEN /\ chars_per_line' = DeriveCharsPerLine(width, font_size)
            /\ error' = "ZeroDivisionError"
            /\ pc' = "raised"
            /\ UNCHANGED lines_per_frame
       ELSE /\ chars_per_line' = DeriveCharsPerLine(width, font_size)
            /\ lines_per_frame' = DeriveLinesPerFrame(height, font_size)
            /\ pc' = "constructed"
            /\ UNCHANGED error
    /\ UNCHANGED <<font_size, width, height, convert_emojis, entry, file_text,
                   input_text, text, width_arg, paragraphs, p_idx, wrapped_lines,
                   l_idx, frames, current_frame_lines, current_line_count, result>>

NextConfig == Construct

SpecConfig == InitConfig /\ [][NextConfig]_vars

(***************************************************************************)
(* wrap_text_with_emoji_support on its own.                                *)
(***************************************************************************)
\* words of visual width 1, 2, 2, 3 and 6
WrapWords ==
    {<<"a">>, <<"b", "c">>, <<CJK>>, <<WAVE, "d">>, <<CJK, "e", CJK, "f">>}

WrapTexts == {Join(ws, <<SP>>) : ws \in SeqsUpTo(WrapWords, MaxWords)}

\* a generator of the defaults; the call's arguments are chosen
InitWrap ==
    /\ pc = "wrap_call"
    /\ font_size = DefaultFontSize
    /\ width = DefaultWidth
    /\ height = DefaultHeight
    /\ convert_emojis = TRUE
    /\ chars_per_line = DeriveCharsPerLine(width, font_size)
    /\ lines_per_frame = DeriveLinesPerFrame(height, font_size)
    /\ error = "none"
    /\ entry = "wrap_text_with_emoji_support"
    /\ file_text = <<>>
    /\ input_text \in WrapTexts
    /\ text = <<>>
    /\ width_arg \in 1..MaxWrapWidth
    /\ paragraphs = <<>>
    /\ p_idx = 1
    /\ wrapped_lines = <<>>
    /\ l_idx = 1
    /\ frames = <<>>
    /\ current_frame_lines = <<>>
    /\ current_line_count = 0
    /\ result = <<>>

\* wrap_text_with_emoji_support(input_text, width_arg) returns
CallWrap ==
    /\ pc = "wrap_call"
    /\ wrapped_lines' = wrap_text_with_emoji_support(input_text, width_arg)
    /\ pc' = "wrap_done"
    /\ UNCHANGED <<font_size, width, height, convert_emojis, chars_per_line,
                   lines_per_frame, error, entry, file_text, input_text, text,
                   width_arg, paragraphs, p_idx, l_idx, frames,
                   current_frame_lines, current_line_count, result>>

NextWrap == CallWrap

SpecWrap == InitWrap /\ [][NextWrap]_vars

(***************************************************************************)
(* convert_emojis_to_text on its own.                                      *)
(***************************************************************************)
EmojiAlphabet == {MAN, WOMAN, ZWJ, COMPUTER, ROCKET, "a"}
EmojiTexts == SeqsUpTo(EmojiAlphabet, MaxEmojiLen)

InitEmoji ==
    /\ pc = "convert_call"
    /\ font_size = DefaultFontSize
    /\ width = DefaultWidth
    /\ height = DefaultHeight
    /\ convert_emojis = TRUE
    /\ chars_per_line = DeriveCharsPerLine(width, font_size)
    /\ lines_per_frame = DeriveLinesPerFrame(height, font_size)
    /\ error = "none"
    /\ entry = "convert_emojis_to_text"
    /\ file_text = <<>>
    /\ input_text \in EmojiTexts
    /\ text = <<>>
    /\ width_arg = 0
    /\ paragraphs = <<>>
    /\ p_idx = 1
    /\ wrapped_lines = <<>>
    /\ l_idx = 1
    /\ frames = <<>>
    /\ current_frame_lines = <<>>
    /\ current_line_count = 0
    /\ result = <<>>

\* convert_emojis_to_text(input_text) returns
CallConvert ==
    /\ pc = "convert_call"
    /\ text' = convert_emojis_to_text(input_text)
    /\ pc' = "convert_done"
    /\ UNCHANGED <<font_size, width, height, convert_emojis, chars_per_line,
                   lines_per_frame, error, entry, file_text, input_text,
                   width_arg, paragraphs, p_idx, wrapped_lines, l_idx, frames,
                   current_frame_lines, current_line_count, result>>

NextEmoji == CallConvert

SpecEmoji == InitEmoji /\ [][NextEmoji]_vars

(***************************************************************************)
(* Properties.                                                             *)
(***************************************************************************)
\* whether key occurs in s
Contains(s, key) == \E i \in 1..Len(s) : StartsWithAt(s, i, key)

\* the lines of a frame text
LinesOf(frame) == SplitOn(frame, <<NL>>)

\* the words of a line
WordsOf(line) == SplitOn(line, <<SP>>)

RECURSIVE SumWidths(_)
SumWidths(ws) == IF ws = <<>> THEN 0 ELSE WordWidth(Head(ws)) + SumWidths(Tail(ws))

\* the words' widths plus one unit per joining space
VisualWidth(line) == SumWidths(WordsOf(line)) + Len(WordsOf(line)) - 1

\* the non-blank members of a sequence of lines
RECURSIVE NonBlank(_)
NonBlank(ls) ==
    IF ls = <<>> THEN <<>>
    ELSE (IF Head(ls) # <<>> THEN <<Head(ls)>> ELSE <<>>) \o NonBlank(Tail(ls))

\* the word lists of the non-blank lines of the frames, in order
LineWordsOf(fs) ==
    LET ls == NonBlank(Flatten([i \in 1..Len(fs) |-> LinesOf(fs[i])]))
    IN  [i \in 1..Len(ls) |-> WordsOf(ls[i])]

\* the number of words in the first k of a sequence of word lists
RECURSIVE WordsBefore(_, _)
WordsBefore(wss, k) == IF k = 0 THEN 0 ELSE Len(wss[k]) + WordsBefore(wss, k - 1)

\* C1: at every step of the pagination loop the frame buffer holds at most
\* lines_per_frame lines, and every frame closed or returned has at most
\* lines_per_frame lines, spacers counted.
LineBudget ==
    /\ current_line_count <= lines_per_frame
    /\ Len(current_frame_lines) <= lines_per_frame
    /\ \A i \in 1..Len(frames) : Len(LinesOf(frames[i])) <= lines_per_frame
    /\ \A i \in 1..Len(result) : Len(LinesOf(result[i])) <= lines_per_frame

\* a call returned several frames, one of them full with a spacer in it
LineBudgetWitness ==
    /\ pc = "done"
    /\ Len(result) >= 2
    /\ \E i \in 1..Len(result) :
        /\ Len(LinesOf(result[i])) = lines_per_frame
        /\ \E k \in 1..Len(LinesOf(result[i])) : LinesOf(result[i])[k] = <<>>
        /\ \E k \in 1..Len(LinesOf(result[i])) : LinesOf(result[i])[k] # <<>>

\* C2: split_text_into_frames returns at least one frame, and exactly one
\* frame holding the empty string when its argument is empty or whitespace.
NonEmptyOutput ==
    pc = "done" =>
        /\ Len(result) >= 1
        /\ Strip(input_text) = <<>> => result = << <<>> >>

\* a whitespace-only argument was paginated
NonEmptyOutputWitness ==
    /\ pc = "done"
    /\ input_text # <<>>
    /\ Strip(input_text) = <<>>
    /\ result = << <<>> >>

\* C3: when no word of the paragraph is wider than the budget, every line
\* wrap_text_with_emoji_support returns has visual width at most the budget.
WidthBudget ==
    (/\ pc = "wrap_done"
     /\ \A k \in 1..Len(SplitWords(input_text)) :
            WordWidth(SplitWords(input_text)[k]) <= width_arg)
    => \A i \in 1..Len(wrapped_lines) : VisualWidth(wrapped_lines[i]) <= width_arg

\* a paragraph of fitting words was wrapped into several lines, one of them
\* holding two words and filling the budget exactly
WidthBudgetWitness ==
    /\ pc = "wrap_done"
    /\ \A k \in 1..Len(SplitWords(input_text)) :
            WordWidth(SplitWords(input_text)[k]) <= width_arg
    /\ Len(wrapped_lines) >= 2
    /\ \E i \in 1..Len(wrapped_lines) :
        /\ Len(WordsOf(wrapped_lines[i])) = 2
        /\ VisualWidth(wrapped_lines[i]) = width_arg

\* C4: the lines' words are the paragraph's words, whole and in order, and
\* a word wider than the budget is the only word of its line.
WordAtomicity ==
    pc = "wrap_done" =>
        /\ Flatten([i \in 1..Len(wrapped_lines) |-> WordsOf(wrapped_lines[i])])
               = SplitWords(input_text)
        /\ \A i \in 1..Len(wrapped_lines) :
               \A k \in 1..Len(WordsOf(wrapped_lines[i])) :
                   WordWidth(WordsOf(wrapped_lines[i])[k]) > width_arg
                       => Len(WordsOf(wrapped_lines[i])) = 1

\* a word wider than the budget, between two fitting words, got its own line
WordAtomicityWitness ==
    /\ pc = "wrap_done"
    /\ Len(SplitWords(input_text)) = 3
    /\ WordWidth(SplitWords(input_text)[1]) <= width_arg
    /\ WordWidth(SplitWords(input_text)[2]) > width_arg
    /\ WordWidth(SplitWords(input_text)[3]) <= width_arg
    /\ wrapped_lines = SplitWords(input_text)

\* C5: the words of the frames' non-blank lines are the words of the text in
\* source order, and no line holds words of two paragraphs.
OrderPreserved ==
    pc = "done" =>
        LET lws == LineWordsOf(result)
            pws == [p \in 1..Len(paragraphs) |-> SplitWords(paragraphs[p])]
        IN  /\ Flatten(lws) = SplitWords(text)
            /\ Flatten(pws) = SplitWords(text)
            /\ \A l \in 1..Len(lws) : \A p \in 1..Len(pws) :
                   ~ (/\ WordsBefore(lws, l - 1) < WordsBefore(pws, p)
                      /\ WordsBefore(pws, p) < WordsBefore(lws, l))

\* two paragraphs of different words went into more than one frame
OrderPreservedWitness ==
    /\ pc = "done"
    /\ Len(paragraphs) >= 2
    /\ paragraphs[1] # paragraphs[2]
    /\ Len(result) >= 2

\* C6: generate_video with conversion enabled: for every map entry whose
\* glyph occurs in the file's text, the letters of its label occur in the
\* text of some frame.
SubstitutionBeforeFilter ==
    (pc = "done" /\ entry = "generate_video" /\ convert_emojis) =>
        \A n \in 1..Len(emoji_map) :
            Contains(file_text, emoji_map[n][1]) =>
                LET ws == SplitWords(AllowListFilter(emoji_map[n][2]))
                IN  \A k \in 1..Len(ws) :
                        \E i \in 1..Len(result) : Contains(result[i], ws[k])

\* the pairs <<n, m>> of map entries where key n contains key m
OverlapPairs ==
    {nm \in (1..Len(emoji_map)) \X (1..Len(emoji_map)) :
        nm[1] # nm[2] /\ Contains(emoji_map[nm[1]][1], emoji_map[nm[2]][1])}

\* C7: when a key K contains another key K', an input holding K comes out
\* holding the label of K, and never K with the label of K' put inside it.
LongestMatchFirst ==
    pc = "convert_done" =>
        \A nm \in OverlapPairs :
            LET K == emoji_map[nm[1]][1]
                partial == Replace(K, emoji_map[nm[2]][1], emoji_map[nm[2]][2])
            IN  /\ Contains(input_text, K) => Contains(text, emoji_map[nm[1]][2])
                /\ ~ Contains(text, partial)

Positive == width > 0 /\ height > 0 /\ font_size > 0

\* C8: construction from positive width, height and font size raises
\* nothing and leaves chars_per_line >= 1 and lines_per_frame >= 1.
FloorAtOne ==
    (pc \in {"constructed", "raised"} /\ Positive) =>
        /\ error = "none"
        /\ chars_per_line >= 1
        /\ lines_per_frame >= 1

\* C9: construction from a non-positive width, height or font size raises
\* InvalidConfig with neither derived field computed.
RejectsNonPositive ==
    (pc \in {"constructed", "raised"} /\ ~ Positive) =>
        /\ error = "InvalidConfig"
        /\ chars_per_line = 0
        /\ lines_per_frame = 0

\* C10: a generator constructed from positive inputs has chars_per_line =
\* max(1, floor(0.8*width / (font_size/1.5))), which is floor(6*width /
\* (5*font_size)), and lines_per_frame = max(1, floor(0.8*height /
\* (font_size+10))), which is floor(4*height / (5*(font_size+10))).
ExactDerivation ==
    (pc = "constructed" /\ Positive) =>
        /\ chars_per_line = Max(1, (6 * width) \div (5 * font_size))
        /\ lines_per_frame = Max(1, (4 * height) \div (5 * (font_size + 10)))

\* a sequence of lines that neither starts with a blank line nor holds two
\* blank lines in a row
SpacersApart(ls) ==
    /\ ls # <<>> => ls[1] # <<>>
    /\ \A k \in 1..(Len(ls) - 1) : ~ (ls[k] = <<>> /\ ls[k + 1] = <<>>)

\* the step that ends a paragraph: one blank line goes into the buffer
\* exactly when the buffer holds fewer than lines_per_frame lines, and it is
\* counted
SpacerAfterParagraph ==
    (pc = "line" /\ l_idx > Len(wrapped_lines) /\ pc' = "paragraph") =>
        /\ current_frame_lines # <<>>
        /\ current_frame_lines[Len(current_frame_lines)] # <<>>
        /\ frames' = frames
        /\ IF Len(current_frame_lines) < lines_per_frame
           THEN /\ current_frame_lines' = Append(current_frame_lines, <<>>)
                /\ current_line_count' = current_line_count + 1
           ELSE /\ current_frame_lines' = current_frame_lines
                /\ current_line_count' = current_line_count

\* the step that places a wrapped line: the line is not blank, and when a
\* spacer filled the buffer the line closes that frame and starts the next
SpacerFillsFrame ==
    (pc = "line" /\ l_idx <= Len(wrapped_lines) /\ l_idx' = l_idx + 1) =>
        /\ wrapped_lines[l_idx] # <<>>
        /\ (/\ current_frame_lines # <<>>
            /\ current_frame_lines[Len(current_frame_lines)] = <<>>
            /\ Len(current_frame_lines) = lines_per_frame)
           => /\ l_idx = 1
              /\ frames' = Append(frames, Join(current_frame_lines, <<NL>>))
              /\ current_frame_lines' = <<wrapped_lines[l_idx]>>
              /\ current_line_count' = 1

\* the buffer, the closed frames and the returned frames of a non-empty text
\* keep their blank lines apart
SpacersApartEverywhere ==
    /\ SpacersApart(current_frame_lines)
    /\ \A i \in 1..Len(frames) : SpacersApart(LinesOf(frames[i]))
    /\ (pc = "done" /\ text # <<>>) =>
           \A i \in 1..Len(result) : SpacersApart(LinesOf(result[i]))

\* C11: after the last wrapped line of every paragraph, the final one
\* included, exactly one blank spacer line is appended to the buffer if and
\* only if the buffer holds fewer than lines_per_frame lines; the spacer is
\* counted, so the next paragraph's first line closes a frame the spacer
\* filled; no frame starts with a spacer and no frame holds two blank lines
\* in a row.
SpacerRule ==
    /\ []SpacersApartEverywhere
    /\ [][SpacerAfterParagraph /\ SpacerFillsFrame]_vars

\* a spacer filled a frame of several lines and the first line of the next
\* paragraph has just closed it
SpacerRuleWitness ==
    /\ pc = "line"
    /\ p_idx >= 2
    /\ l_idx = 2
    /\ frames # <<>>
    /\ LET ls == LinesOf(frames[Len(frames)])
       IN  /\ Len(ls) = lines_per_frame
           /\ Len(ls) >= 2
           /\ ls[Len(ls)] = <<>>
    /\ current_frame_lines = <<wrapped_lines[1]>>
    /\ current_line_count = 1

====
